---- MODULE Spec2Model ----
(***************************************************************************)
(* Model of seener/py-helper: the file helpers of file_system.py           *)
(* (copy_file, inspect_zip, extract_files) over an abstract filesystem,    *)
(* and the metadata routine of metadata.py (generate_meta_table and its    *)
(* helpers) over column profiles of a table.                               *)
(*                                                                         *)
(* SpecFS   : the filesystem and the three file helpers.                   *)
(* SpecMeta : a table and generate_meta_table applied to it.               *)
(***************************************************************************)
EXTENDS Integers, Sequences, FiniteSets, TLC

VARIABLES files, prev, last, table, out

fsvars   == <<files, prev, last>>
metavars == <<table, out>>
vars     == <<files, prev, last, table, out>>

(***************************************************************************)
(* Part 1: file_system.py                                                  *)
(*                                                                         *)
(* A path is the sequence of its "/"-separated segments: <<"d1">> is a     *)
(* directory, <<"d1", "a">> the file a in it.  The directories d1 and d2   *)
(* exist, dx does not; no helper creates or removes a directory.  origin   *)
(* and z_archive range over file paths, destination over directory paths,  *)
(* as the docstrings describe them.                                        *)
(***************************************************************************)

\* Largest content value of a plain file.
MaxData == 2

Dirs       == {"d1", "d2"}
MissingDir == "dx"
AllDirs    == Dirs \cup {MissingDir}
FileNames  == {"a", "b"}
ArchName   == "z"
Names      == FileNames \cup {ArchName}

NoMember == "None"
NoPath   == << >>

\* What a directory slot holds.  A zip archive has the names of its members,
\* the content its members extract to, and the fault (if any) the zipfile
\* library raises when the archive is extracted.
Absent      == [kind |-> "absent", data |-> 0, members |-> {}, fault |-> "none"]
Plain(d)    == [kind |-> "file", data |-> d, members |-> {}, fault |-> "none"]
Zip(m, d, f) == [kind |-> "zip", data |-> d, members |-> m, fault |-> f]

\* The file paths a call is given: every slot of the existing directories
\* and one file under the missing directory.
FilePaths == {<<d, n>> : d \in Dirs, n \in Names} \cup {<<MissingDir, "a">>}
DirPaths  == {<<d>> : d \in AllDirs}

\* os.path.exists
Exists(fs, p) ==
    IF Len(p) = 1 THEN p[1] \in Dirs
    ELSE /\ Len(p) = 2
         /\ p[1] \in Dirs
         /\ fs[p[1]][p[2]].kind # "absent"

\* origin.split("/")[-1]
BaseName(p) == p[Len(p)]

\* "/".join(z_archive.split("/")[:-1])
DirName(p) == SubSeq(p, 1, Len(p) - 1)

\* destination + "/" + origin.split("/")[-1]
NewLoc(destination, origin) == Append(destination, BaseName(origin))

Entry(fs, p) == fs[p[1]][p[2]]

Put(fs, p, e) == [fs EXCEPT ![p[1]][p[2]] = e]

\* The status strings: the leading token, the function named, the text.
Msg(prefix, func, text) == [prefix |-> prefix, func |-> func, text |-> text]
NoMsg == Msg("none", "none", "none")

StartsWithError(m) == m.prefix = "Error"

NoCall == [op |-> "none", origin |-> NoPath, destination |-> NoPath,
           keep |-> FALSE, z_archive |-> NoPath, member |-> NoMember,
           msg |-> NoMsg, raised |-> "none", content_list |-> "unset"]

\* shutil.copy2(origin, destination) into an existing directory
Copy2(fs, origin, destination) ==
    Put(fs, NewLoc(destination, origin), Entry(fs, origin))

\* A move that leaves the origin in place.
Move_KeepsOrigin(fs, origin, destination) == Copy2(fs, origin, destination)

\* shutil.move(origin, destination) into an existing directory
Move(fs, origin, destination) ==
    Put(Copy2(fs, origin, destination), origin, Absent)

\* A copy_file that reports success for a missing destination directory.
CopyFileMsg_MissingDestOk(fs, origin, destination) ==
    IF Exists(fs, origin)
    THEN IF Exists(fs, NewLoc(destination, origin))
         THEN Msg("Message", "move_file file", "already exists in destination")
         ELSE Msg("Message", "move_file", "successufully moved")
    ELSE Msg("Error", "move_file", "origin does not exist")

CopyFileMsg(fs, origin, destination) ==
    IF Exists(fs, origin)
    THEN IF Exists(fs, destination)
         THEN IF Exists(fs, NewLoc(destination, origin))
              THEN Msg("Message", "move_file file", "already exists in destination")
              ELSE Msg("Message", "move_file", "successufully moved")
         ELSE Msg("Error", "move_file", "destination does not exist")
    ELSE Msg("Error", "move_file", "origin does not exist")

\* A copy_file that does not look for the file in the destination.
CopyFileFs_Overwrites(fs, origin, destination, keep) ==
    IF Exists(fs, origin) /\ Exists(fs, destination)
    THEN IF keep THEN Copy2(fs, origin, destination)
                 ELSE Move(fs, origin, destination)
    ELSE fs

CopyFileFs(fs, origin, destination, keep) ==
    IF /\ Exists(fs, origin)
       /\ Exists(fs, destination)
       /\ ~Exists(fs, NewLoc(destination, origin))
    THEN IF keep THEN Copy2(fs, origin, destination)
                 ELSE Move(fs, origin, destination)
    ELSE fs

copy_file(origin, destination, keep) ==
    /\ files' = CopyFileFs(files, origin, destination, keep)
    /\ prev' = files
    /\ last' = [NoCall EXCEPT !.op = "copy_file", !.origin = origin,
                              !.destination = destination, !.keep = keep,
                              !.msg = CopyFileMsg(files, origin, destination)]
    /\ UNCHANGED metavars

\* What ZipFile(z_archive) raises when it opens the file: nothing for a
\* zip archive, BadZipFile for any other file.
OpenFault(e) == IF e.kind = "zip" THEN "none" ELSE "BadZipFile"

inspect_zip(z_archive) ==
    /\ files' = files
    /\ prev' = files
    /\ last' =
         IF Exists(files, z_archive)
         THEN IF OpenFault(Entry(files, z_archive)) = "none"
              THEN [NoCall EXCEPT !.op = "inspect_zip", !.z_archive = z_archive,
                       !.content_list = Entry(files, z_archive).members,
                       !.msg = Msg("Message", "inspect_zip",
                                   "was found and contents provided")]
              ELSE [NoCall EXCEPT !.op = "inspect_zip", !.z_archive = z_archive,
                       !.raised = OpenFault(Entry(files, z_archive))]
         ELSE [NoCall EXCEPT !.op = "inspect_zip", !.z_archive = z_archive,
                  !.content_list = "None",
                  !.msg = Msg("Error", "inspect_zip", "does not exists")]
    /\ UNCHANGED metavars

\* The exception the body of the try block ends with ("none": it completes).
ExtractFault(e, member) ==
    IF OpenFault(e) # "none" THEN OpenFault(e)
    ELSE IF member # NoMember /\ member \notin e.members THEN "KeyError"
    ELSE e.fault

\* An extraction that writes every member whatever member is named.
Extracted_All(e, member) ==
    IF ExtractFault(e, member) # "none" THEN {} ELSE e.members

\* The members arch.extractall(path) / arch.extract(member, path) write.
Extracted(e, member) ==
    IF ExtractFault(e, member) # "none" THEN {}
    ELSE IF member = NoMember THEN e.members
    ELSE {member}

ExtractFs(fs, z_archive, member) ==
    IF Exists(fs, z_archive)
    THEN [d \in AllDirs |-> [n \in Names |->
            IF /\ <<d>> = DirName(z_archive)
               /\ n \in Extracted(Entry(fs, z_archive), member)
            THEN Plain(Entry(fs, z_archive).data)
            ELSE fs[d][n]]]
    ELSE fs

\* except ValueError: the one exception class the handler catches.
Caught(x) == x = "ValueError"

ExtractMsg(fs, z_archive, member) ==
    IF Exists(fs, z_archive)
    THEN IF ExtractFault(Entry(fs, z_archive), member) = "none"
         THEN Msg("Message", "extract_files", "file(s) successfully extracted")
         ELSE IF Caught(ExtractFault(Entry(fs, z_archive), member))
         THEN Msg("Error", "extract_file", "there was a problem extracting")
         ELSE NoMsg
    ELSE Msg("Error", "extract_files", "the zip archive does not exists")

ExtractRaised(fs, z_archive, member) ==
    IF /\ Exists(fs, z_archive)
       /\ ExtractFault(Entry(fs, z_archive), member) # "none"
       /\ ~Caught(ExtractFault(Entry(fs, z_archive), member))
    THEN ExtractFault(Entry(fs, z_archive), member)
    ELSE "none"

extract_files(z_archive, member) ==
    /\ files' = ExtractFs(files, z_archive, member)
    /\ prev' = files
    /\ last' = [NoCall EXCEPT !.op = "extract_files", !.z_archive = z_archive,
                              !.member = member,
                              !.msg = ExtractMsg(files, z_archive, member),
                              !.raised = ExtractRaised(files, z_archive, member)]
    /\ UNCHANGED metavars

\* The archives a filesystem starts with.
InitArchives ==
    {Absent, Zip(FileNames, 1, "none"), Zip({"a"}, 1, "ValueError")}

InitPlain == {Absent} \cup {Plain(d) : d \in 1..MaxData}

\* A filesystem starts with plain files named a and archives named z; a
\* file named b comes to exist only by extraction.
InitFiles ==
    {fs \in [AllDirs -> [Names -> InitArchives \cup InitPlain]] :
        /\ \A n \in Names : fs[MissingDir][n] = Absent
        /\ \A d \in Dirs :
             /\ fs[d][ArchName] \in InitArchives
             /\ fs[d]["a"] \in InitPlain
             /\ fs[d]["b"] = Absent}

NoTable == [rows |-> 0, cols |-> << >>]
NoOut   == [pc |-> "idle", raised |-> "none", msg |-> NoMsg,
            init_meta |-> << >>, primary_key |-> << >>, categorical |-> << >>,
            meta_dict |-> << >>]

InitFS ==
    /\ files \in InitFiles
    /\ prev = files
    /\ last = NoCall
    /\ table = NoTable
    /\ out = NoOut

CopyFile ==
    \E origin \in FilePaths, destination \in DirPaths, keep \in BOOLEAN :
        copy_file(origin, destination, keep)

InspectZip == \E z_archive \in FilePaths : inspect_zip(z_archive)

ExtractFiles ==
    \E z_archive \in FilePaths, member \in FileNames \cup {NoMember} :
        extract_files(z_archive, member)

NextFS == CopyFile \/ InspectZip \/ ExtractFiles

SpecFS == InitFS /\ [][NextFS]_vars

(***************************************************************************)
(* Part 2: metadata.py                                                     *)
(*                                                                         *)
(* A table is its row count and, per column, a profile of the column's     *)
(* cells: the dtype label, the number of distinct non-missing values, the  *)
(* number of missing cells, and the least and greatest len(str(x)) over    *)
(* the non-missing cells.  Columns are named by their position.  Tables    *)
(* have at least one row and one column.  The values of the statistics     *)
(* the profile does not determine (means, sums, percentiles) are kept as   *)
(* the marker "value".                                                     *)
(***************************************************************************)

\* Most columns of a table.
MaxCols == 2
\* Tables of 1..SmallRows rows are taken besides those at the thresholds.
SmallRows == 2

RowThreshold     == 900
LargeCardinality == 30
SmallCardinality == 11
NaFractionNum    == 3
NaFractionDen    == 10
MaxKeyLen        == 254
\* len(str(float("nan")))
NaLen            == 3

DataTypes == {"int64", "float64", "object"}

RowCounts ==
    (1..SmallRows) \cup {SmallCardinality - 1, SmallCardinality,
                         RowThreshold, RowThreshold + 1}

\* Least n with n >= 0.3 * r.
NaBoundary(r) == (NaFractionNum * r + NaFractionDen - 1) \div NaFractionDen

UniqueChoices(r) ==
    {u \in {SmallCardinality - 1, SmallCardinality, LargeCardinality - 1,
            LargeCardinality, r} : u <= r}

NaChoices(r) == {n \in {0, NaBoundary(r) - 1, NaBoundary(r)} : 0 <= n /\ n <= r}

LenPairs(data_type) ==
    CASE data_type = "int64"   -> {<<1, 1>>, <<1, 3>>}
      [] data_type = "float64" -> {<<3, 3>>, <<3, 4>>}
      [] data_type = "object"  -> {<<1, 1>>, <<1, MaxKeyLen>>, <<1, MaxKeyLen + 1>>,
                                   <<MaxKeyLen + 1, MaxKeyLen + 1>>}

\* How many values of the dtype have a str() of length len (object: no limit
\* that matters here).
StrCount(data_type, len) ==
    CASE data_type = "int64" ->
            IF len = 1 THEN 10 ELSE 9 * 10^(len - 1) + 9 * 10^(len - 2)
      [] data_type = "float64" ->
            IF len < 3 THEN 0 ELSE IF len = 3 THEN 101 ELSE 1901
      [] OTHER -> 1000000

RECURSIVE Capacity(_, _, _)
Capacity(data_type, lo, hi) ==
    IF lo > hi THEN 0
    ELSE IF data_type = "object" THEN StrCount(data_type, lo)
    ELSE StrCount(data_type, lo) + Capacity(data_type, lo + 1, hi)

Column(data_type, distinct, nas, minlen, maxlen) ==
    [data_type |-> data_type, distinct |-> distinct, nas |-> nas,
     minlen |-> minlen, maxlen |-> maxlen]

RECURSIVE Digits(_)
Digits(n) == IF n < 10 THEN 1 ELSE 1 + Digits(n \div 10)

\* The column holding the integers 1..r.
SeqColumn(r) == Column("int64", r, 0, 1, Digits(r))

\* The profiles a column of an r-row table can have.
Columns(r) ==
    {Column(dt, u, n, lens[1], lens[2]) :
        dt \in DataTypes, u \in UniqueChoices(r), n \in NaChoices(r),
        lens \in UNION {LenPairs(d) : d \in DataTypes}}

WellFormed(c, r) ==
    /\ <<c.minlen, c.maxlen>> \in LenPairs(c.data_type)
    /\ c.distinct + c.nas <= r
    /\ c.data_type = "int64" => c.nas = 0
    /\ c.minlen < c.maxlen => c.distinct >= 2
    /\ c.distinct <= Capacity(c.data_type, c.minlen, c.maxlen)

ColumnsOf(r) == {c \in Columns(r) : WellFormed(c, r)} \cup {SeqColumn(r)}

DataTypeRank(data_type) ==
    CASE data_type = "int64" -> 1 [] data_type = "float64" -> 2 [] OTHER -> 3

ProfileKey(c) ==
    <<DataTypeRank(c.data_type), c.distinct, c.nas, c.minlen, c.maxlen>>

RECURSIVE LexLeq(_, _, _)
LexLeq(a, b, i) ==
    IF i > Len(a) THEN TRUE
    ELSE IF a[i] # b[i] THEN a[i] < b[i]
    ELSE LexLeq(a, b, i + 1)

\* None of the routines depends on the order of the columns: a table is
\* taken with its columns in the order of their profiles.
ColumnLeq(a, b) == LexLeq(ProfileKey(a), ProfileKey(b), 1)

ColNames(d_f) == DOMAIN d_f.cols

Min2(a, b) == IF a < b THEN a ELSE b
Max2(a, b) == IF a > b THEN a ELSE b

get_basic_meta(d_f) ==
    [c \in ColNames(d_f) |->
        [data_type    |-> d_f.cols[c].data_type,
         is_numeric   |-> d_f.cols[c].data_type \in {"float64", "int64"},
         description  |-> "NaN",
         unique_count |-> d_f.cols[c].distinct,
         na_count     |-> d_f.cols[c].nas]]

\* Every cell is stringified, a missing one as "nan".
get_char_meta(d_f) ==
    [c \in ColNames(d_f) |->
        [char_min_len |-> IF d_f.cols[c].nas > 0
                          THEN Min2(d_f.cols[c].minlen, NaLen)
                          ELSE d_f.cols[c].minlen,
         char_avg_len |-> "value",
         char_max_len |-> IF d_f.cols[c].nas > 0
                          THEN Max2(d_f.cols[c].maxlen, NaLen)
                          ELSE d_f.cols[c].maxlen]]

\* basic.join(char, how="left")
JoinMeta(basic, char) ==
    [c \in DOMAIN basic |->
        [data_type    |-> basic[c].data_type,
         is_numeric   |-> basic[c].is_numeric,
         description  |-> basic[c].description,
         unique_count |-> basic[c].unique_count,
         na_count     |-> basic[c].na_count,
         char_min_len |-> char[c].char_min_len,
         char_avg_len |-> char[c].char_avg_len,
         char_max_len |-> char[c].char_max_len]]

NumColumns ==
    {"num_sum", "num_min", "num_01_p", "num_10_p", "num_25_p", "num_50_p",
     "num_avg", "num_75_p", "num_90_p", "num_99_p", "num_max", "num_range",
     "num_stdev"}

\* d_f.describe() keeps the numeric columns.
get_numeric_meta(d_f) ==
    [c \in {x \in ColNames(d_f) : d_f.cols[x].data_type \in {"float64", "int64"}} |->
        [k \in NumColumns |-> "value"]]

StrictKey(m, recs) ==
    /\ m.unique_count = recs /\ m.na_count = 0
    /\ (m.char_min_len = m.char_max_len \/ m.data_type = "int64")

RelaxedKey(m, recs) ==
    /\ m.unique_count = recs /\ m.na_count = 0
    /\ m.data_type # "float64"
    /\ ~(m.char_max_len > MaxKeyLen)

\* An identify_pk_meta whose relaxed pass leaves long text columns flagged.
identify_pk_meta_NoLengthCap(meta_df, recs) ==
    IF \E c \in DOMAIN meta_df : StrictKey(meta_df[c], recs)
    THEN [c \in DOMAIN meta_df |-> StrictKey(meta_df[c], recs)]
    ELSE [c \in DOMAIN meta_df |->
            /\ meta_df[c].unique_count = recs /\ meta_df[c].na_count = 0
            /\ meta_df[c].data_type # "float64"]

identify_pk_meta(meta_df, recs) ==
    IF \E c \in DOMAIN meta_df : StrictKey(meta_df[c], recs)
    THEN [c \in DOMAIN meta_df |-> StrictKey(meta_df[c], recs)]
    ELSE [c \in DOMAIN meta_df |-> RelaxedKey(meta_df[c], recs)]

\* na_count < 0.3 * recs, in integers
BelowNaFraction(na_count, recs) ==
    NaFractionDen * na_count < NaFractionNum * recs

\* An identify_categorical_meta that takes the large threshold from 900 rows on.
identify_categorical_meta_From900(meta_df, recs) ==
    IF recs >= RowThreshold
    THEN [c \in DOMAIN meta_df |->
            /\ meta_df[c].unique_count < LargeCardinality
            /\ BelowNaFraction(meta_df[c].na_count, recs)]
    ELSE [c \in DOMAIN meta_df |->
            /\ meta_df[c].unique_count < SmallCardinality
            /\ BelowNaFraction(meta_df[c].na_count, recs)]

\* An identify_categorical_meta whose cardinality comparisons are not strict.
identify_categorical_meta_NotStrict(meta_df, recs) ==
    IF recs > RowThreshold
    THEN [c \in DOMAIN meta_df |->
            /\ meta_df[c].unique_count <= LargeCardinality
            /\ BelowNaFraction(meta_df[c].na_count, recs)]
    ELSE [c \in DOMAIN meta_df |->
            /\ meta_df[c].unique_count <= SmallCardinality
            /\ BelowNaFraction(meta_df[c].na_count, recs)]

identify_categorical_meta(meta_df, recs) ==
    IF recs > RowThreshold
    THEN [c \in DOMAIN meta_df |->
            /\ meta_df[c].unique_count < LargeCardinality
            /\ BelowNaFraction(meta_df[c].na_count, recs)]
    ELSE [c \in DOMAIN meta_df |->
            /\ meta_df[c].unique_count < SmallCardinality
            /\ BelowNaFraction(meta_df[c].na_count, recs)]

InitMetaKeys ==
    {"data_type", "is_numeric", "description", "unique_count", "na_count",
     "char_min_len", "char_avg_len", "char_max_len"}

\* meta.join(elements, how="left"), to_dict() and the table-level entries
MetaDict(location, rec_cnt, col_cnt, init_meta, primary_key, categorical, num) ==
    [k \in {"source", "rows", "columns", "possible_primary_key",
            "possible_categorical"} \cup InitMetaKeys \cup NumColumns |->
        CASE k = "source"  -> location
          [] k = "rows"    -> rec_cnt
          [] k = "columns" -> col_cnt
          [] k = "possible_primary_key" -> primary_key
          [] k = "possible_categorical" -> categorical
          [] k \in InitMetaKeys -> [c \in DOMAIN init_meta |-> init_meta[c][k]]
          [] OTHER -> [c \in DOMAIN init_meta |->
                          IF c \in DOMAIN num THEN num[c][k] ELSE "NaN"]]

NoDict == [k \in {} |-> "NaN"]

\* The locals of generate_meta_table when it returns or raises: reading the
\* unassigned local num on the else branch raises UnboundLocalError.
MetaTableOut(d_f, location) ==
    LET rec_cnt     == d_f.rows
        col_cnt     == Len(d_f.cols)
        basic       == get_basic_meta(d_f)
        char        == get_char_meta(d_f)
        init_meta   == JoinMeta(basic, char)
        primary_key == identify_pk_meta(init_meta, rec_cnt)
        categorical == identify_categorical_meta(init_meta, rec_cnt)
    IN  IF \E c \in DOMAIN basic : basic[c].is_numeric
        THEN [pc |-> "returned", raised |-> "none",
              msg |-> Msg("Message", "generate_meta_table", "ran successfully"),
              init_meta |-> init_meta, primary_key |-> primary_key,
              categorical |-> categorical,
              meta_dict |-> MetaDict(location, rec_cnt, col_cnt, init_meta,
                                     primary_key, categorical,
                                     get_numeric_meta(d_f))]
        ELSE [pc |-> "raised", raised |-> "UnboundLocalError",
              msg |-> NoMsg,
              init_meta |-> init_meta, primary_key |-> primary_key,
              categorical |-> categorical,
              meta_dict |-> NoDict]

generate_meta_table(location) ==
    /\ out.pc = "idle"
    /\ Len(table.cols) >= 1
    /\ out' = MetaTableOut(table, location)
    /\ UNCHANGED <<table, files, prev, last>>

\* The caller builds the data frame it passes as d_f, column by column.
AddColumn ==
    /\ out.pc = "idle"
    /\ Len(table.cols) < MaxCols
    /\ \E c \in ColumnsOf(table.rows) :
          /\ IF Len(table.cols) = 0 THEN TRUE
             ELSE ColumnLeq(table.cols[Len(table.cols)], c)
          /\ table' = [table EXCEPT !.cols = Append(@, c)]
    /\ UNCHANGED <<out, files, prev, last>>

Locations == {"data.csv"}

NoFiles == [d \in AllDirs |-> [n \in Names |-> Absent]]

InitMeta ==
    /\ table \in {[rows |-> r, cols |-> << >>] : r \in RowCounts}
    /\ out = NoOut
    /\ files = NoFiles
    /\ prev = NoFiles
    /\ last = NoCall

GenerateMetaTable == \E location \in Locations : generate_meta_table(location)

NextMeta == AddColumn \/ GenerateMetaTable

SpecMeta == InitMeta /\ [][NextMeta]_vars

(***************************************************************************)
(* Claims about file_system.py, stated over the last call (last), the      *)
(* filesystem before it (prev) and after it (files).                       *)
(***************************************************************************)

IsCopy    == last.op = "copy_file"
IsInspect == last.op = "inspect_zip"
IsExtract == last.op = "extract_files"

LastNewLoc == NewLoc(last.destination, last.origin)

\* C2: copy_file with an existing origin file, an existing destination
\* directory and no file of the origin's name in the destination returns a
\* message that does not start with "Error", leaves a file of that name in
\* the destination, and the origin still exists iff keep is true.
C2_CopySucceeds ==
    (/\ IsCopy
     /\ Exists(prev, last.origin)
     /\ Exists(prev, last.destination)
     /\ ~Exists(prev, LastNewLoc))
    => /\ last.raised = "none"
       /\ last.msg # NoMsg
       /\ ~StartsWithError(last.msg)
       /\ Exists(files, LastNewLoc)
       /\ Entry(files, LastNewLoc) = Entry(prev, last.origin)
       /\ (Exists(files, last.origin) <=> last.keep)

\* A move (keep = false) into a directory that lacked the file.
C2_Witness ==
    /\ IsCopy
    /\ ~last.keep
    /\ Exists(prev, last.origin)
    /\ Exists(prev, last.destination)
    /\ ~Exists(prev, LastNewLoc)
    /\ Exists(files, LastNewLoc)
    /\ ~Exists(files, last.origin)

\* C3 as stated: whenever the destination already holds a file with the
\* origin's name, copy_file changes nothing and returns the "already exists"
\* message, which does not start with "Error".
C3_Original ==
    (IsCopy /\ Exists(prev, LastNewLoc))
    => /\ files = prev
       /\ last.msg.text = "already exists in destination"
       /\ ~StartsWithError(last.msg)

\* C3 amended: whenever the destination already holds a file with the
\* origin's name, copy_file changes nothing; the message is the "already
\* exists" one (not an "Error") when the origin exists, and the "Error ...
\* does not exist" one when it does not.  No call changes a file that was
\* present in its destination directory.
C3_NoOverwrite ==
    /\ (IsCopy /\ Exists(prev, LastNewLoc))
       => /\ files = prev
          /\ Exists(prev, last.origin)
             => /\ last.msg.text = "already exists in destination"
                /\ ~StartsWithError(last.msg)
          /\ ~Exists(prev, last.origin)
             => /\ last.msg.text = "origin does not exist"
                /\ StartsWithError(last.msg)
    /\ (IsCopy /\ Exists(prev, last.destination))
       => \A n \in Names :
             Exists(prev, Append(last.destination, n))
             => Entry(files, Append(last.destination, n))
                = Entry(prev, Append(last.destination, n))

\* The destination holds a file of the origin's name with other content,
\* and it is still there after the call.
C3_Witness ==
    /\ IsCopy
    /\ Exists(prev, last.origin)
    /\ Exists(prev, LastNewLoc)
    /\ LastNewLoc # last.origin
    /\ Entry(prev, LastNewLoc) # Entry(prev, last.origin)
    /\ Entry(files, LastNewLoc) = Entry(prev, LastNewLoc)
    /\ last.msg.text = "already exists in destination"

\* C4: copy_file with a missing origin or a missing destination directory,
\* inspect_zip with a missing archive and extract_files with a missing
\* archive each return a message starting with "Error" and leave the
\* filesystem unchanged; inspect_zip also returns None as its content list.
C4_MissingPath ==
    /\ (IsCopy /\ (~Exists(prev, last.origin) \/ ~Exists(prev, last.destination)))
       => /\ last.raised = "none"
          /\ StartsWithError(last.msg)
          /\ files = prev
    /\ (IsInspect /\ ~Exists(prev, last.z_archive))
       => /\ last.raised = "none"
          /\ StartsWithError(last.msg)
          /\ last.content_list = "None"
          /\ files = prev
    /\ (IsExtract /\ ~Exists(prev, last.z_archive))
       => /\ last.raised = "none"
          /\ StartsWithError(last.msg)
          /\ files = prev

\* copy_file of an existing file into the missing directory.
C4_Witness ==
    /\ IsCopy
    /\ Exists(prev, last.origin)
    /\ ~Exists(prev, last.destination)
    /\ StartsWithError(last.msg)
    /\ files = prev

\* C5: extract_files on an existing archive path whose extraction fails
\* returns a message starting with "Error"; no fault reaches the caller.
C5_ExtractFailureReported ==
    (/\ IsExtract
     /\ Exists(prev, last.z_archive)
     /\ ExtractFault(Entry(prev, last.z_archive), last.member) # "none")
    => /\ last.raised = "none"
       /\ StartsWithError(last.msg)

LastDir == DirName(last.z_archive)

\* C6: extract_files on an existing valid archive: with member=None every
\* member is present in the archive's directory afterwards; with one member
\* named, that member is present afterwards and no other member is created
\* or changed by the call.
C6_Extract ==
    (/\ IsExtract
     /\ Exists(prev, last.z_archive)
     /\ Entry(prev, last.z_archive).kind = "zip"
     /\ Entry(prev, last.z_archive).fault = "none")
    => /\ last.member = NoMember
          => \A m \in Entry(prev, last.z_archive).members :
                Exists(files, Append(LastDir, m))
       /\ (last.member # NoMember /\ last.member \in Entry(prev, last.z_archive).members)
          => /\ Exists(files, Append(LastDir, last.member))
             /\ \A m \in Entry(prev, last.z_archive).members \ {last.member} :
                   Entry(files, Append(LastDir, m)) = Entry(prev, Append(LastDir, m))

\* One member of a two-member archive is extracted into a directory holding
\* neither: the named one appears, the other does not.
C6_Witness ==
    /\ IsExtract
    /\ last.member = "a"
    /\ Exists(prev, last.z_archive)
    /\ Entry(prev, last.z_archive).members = FileNames
    /\ Entry(prev, last.z_archive).fault = "none"
    /\ ~Exists(prev, Append(LastDir, "a"))
    /\ Exists(files, Append(LastDir, "a"))
    /\ ~Exists(files, Append(LastDir, "b"))

(***************************************************************************)
(* Claims about metadata.py, stated over the table passed to               *)
(* generate_meta_table and what the call left (out).                       *)
(***************************************************************************)

Called   == out.pc # "idle"
Returned == out.pc = "returned"

StartsWithNum(k) == k \in NumColumns

NoNumericColumn ==
    \A c \in ColNames(table) : table.cols[c].data_type \notin {"int64", "float64"}

\* C1: generate_meta_table on a table with no numeric column returns
\* normally with a (meta_dict, message) pair whose meta_dict has no num_*
\* key; it does not raise.
C1_NoNumericReturns ==
    (Called /\ NoNumericColumn)
    => /\ out.raised = "none"
       /\ Returned
       /\ \A k \in DOMAIN out.meta_dict : ~StartsWithNum(k)

\* C7: a column is flagged possible_categorical exactly when
\* na_count < 0.3 * row_count and unique_count is below 30 (row_count > 900)
\* or below 11 (row_count <= 900), both comparisons strict.
C7_Categorical ==
    Called =>
      \A c \in ColNames(table) :
        /\ out.categorical[c]
           <=> /\ 10 * out.init_meta[c].na_count < 3 * table.rows
               /\ out.init_meta[c].unique_count
                    < (IF table.rows > 900 THEN 30 ELSE 11)
        /\ (table.rows > 900 /\ out.init_meta[c].unique_count = 30)
           => ~out.categorical[c]
        /\ (/\ table.rows > 900 /\ out.init_meta[c].unique_count = 29
            /\ 10 * out.init_meta[c].na_count < 3 * table.rows)
           => out.categorical[c]
        /\ (table.rows = 900 /\ out.init_meta[c].unique_count >= 11)
           => ~out.categorical[c]

\* A table of more than 900 rows with a flagged column of 29 unique values
\* and an unflagged column of 30 unique values, neither short of values.
C7_Witness ==
    /\ Called
    /\ table.rows > 900
    /\ \E c \in ColNames(table) :
          /\ out.init_meta[c].unique_count = 29
          /\ out.init_meta[c].na_count = 0
          /\ out.categorical[c]
    /\ \E c \in ColNames(table) :
          /\ out.init_meta[c].unique_count = 30
          /\ out.init_meta[c].na_count = 0
          /\ ~out.categorical[c]

C8_Strict(c) ==
    /\ out.init_meta[c].unique_count = table.rows
    /\ out.init_meta[c].na_count = 0
    /\ \/ out.init_meta[c].char_min_len = out.init_meta[c].char_max_len
       \/ out.init_meta[c].data_type = "int64"

C8_Relaxed(c) ==
    /\ out.init_meta[c].unique_count = table.rows
    /\ out.init_meta[c].na_count = 0
    /\ out.init_meta[c].data_type # "float64"
    /\ out.init_meta[c].char_max_len <= 254

C9_FloatNeverKey ==
    Called =>
      \A c \in ColNames(table) :
        out.init_meta[c].data_type = "float64" => ~out.primary_key[c]

\* C10: in the result of generate_meta_table for a table of at least 11
\* rows no column is flagged both possible_primary_key and
\* possible_categorical; in a table of 1 to 10 rows a column flagged
\* possible_primary_key is flagged possible_categorical as well.
C10_KeyNotCategorical ==
    Returned =>
      \A c \in ColNames(table) :
        /\ out.meta_dict["rows"] >= 11
           => ~(/\ out.meta_dict["possible_primary_key"][c]
                /\ out.meta_dict["possible_categorical"][c])
        /\ (out.meta_dict["rows"] <= 10 /\ out.meta_dict["possible_primary_key"][c])
           => out.meta_dict["possible_categorical"][c]

\* A returned result for a table of exactly 11 rows with a column flagged
\* possible_primary_key, which is not flagged possible_categorical.
C10_Witness ==
    /\ Returned
    /\ out.meta_dict["rows"] = 11
    /\ \E c \in ColNames(table) :
          /\ out.meta_dict["possible_primary_key"][c]
          /\ ~out.meta_dict["possible_categorical"][c]

\* A returned result for a table of at most 10 rows in which one column
\* carries both flags.
C10_SmallTableBoth ==
    /\ Returned
    /\ out.meta_dict["rows"] <= 10
    /\ \E c \in ColNames(table) :
          /\ out.meta_dict["possible_primary_key"][c]
          /\ out.meta_dict["possible_categorical"][c]

====
